---- MODULE Spec2Model ----
(***************************************************************************)
(* Device command execution engine: the job executor tasks of              *)
(* src/tasks/jobs.py driving the job record store, and the retry loop of   *)
(* the REST-backed protocol clients (WebPA, TR-069, USP).                  *)
(***************************************************************************)
EXTENDS Integers, Sequences, FiniteSets, TLC

\* Largest configured `retries` value explored.
MaxRetries == 3

\* progress: Optional[int] = None
NoProgress == -1

----------------------------------------------------------------------------
\* Job kinds that have an executor task in tasks/jobs.py.

SnmpKinds == {"SNMP_GET", "SNMP_SET", "SNMP_BULKWALK"}

RestKinds == {"WEBPA_GET", "WEBPA_SET", "TR069_GET", "TR069_SET", "USP_GET", "USP_SET"}

Kinds == SnmpKinds \cup RestKinds

Terminal == {"completed", "failed", "cancelled"}

\* USPTransportMode
Modes == {"http", "mqtt", "websocket"}

\* The "protocol" field of the success payload, and the prefix of "<protocol>_error".
Protocol(k) ==
    CASE k \in SnmpKinds -> "snmp"
      [] k \in {"WEBPA_GET", "WEBPA_SET"} -> "webpa"
      [] k \in {"TR069_GET", "TR069_SET"} -> "tr069"
      [] k \in {"USP_GET", "USP_SET"} -> "usp"

\* The "operation" field of the success payload.
Operation(k) ==
    CASE k \in {"SNMP_GET", "WEBPA_GET", "USP_GET"} -> "get"
      [] k \in {"SNMP_SET", "WEBPA_SET", "USP_SET"} -> "set"
      [] k = "SNMP_BULKWALK" -> "bulkwalk"
      [] k = "TR069_GET" -> "GetParameterValues"
      [] k = "TR069_SET" -> "SetParameterValues"

\* The client method each task awaits.
ClientOp(k) ==
    CASE k = "SNMP_GET" -> "SNMPClient.get"
      [] k = "SNMP_SET" -> "SNMPClient.set"
      [] k = "SNMP_BULKWALK" -> "SNMPClient.bulk_walk"
      [] k = "WEBPA_GET" -> "WebPAClient.get"
      [] k = "WEBPA_SET" -> "WebPAClient.set"
      [] k = "TR069_GET" -> "TR069Client.get_parameter_values"
      [] k = "TR069_SET" -> "TR069Client.set_parameter_values"
      [] k = "USP_GET" -> "USPClient.get"
      [] k = "USP_SET" -> "USPClient.set"

\* Progress written with the second 'running' write.
PreDispatchProgress(k) ==
    IF k \in {"SNMP_BULKWALK", "TR069_GET", "TR069_SET"} THEN 30 ELSE 50

----------------------------------------------------------------------------
\* REST-backed client operations (each holds the same retry loop).

WebPAOps == {"WebPAClient.get", "WebPAClient.set"}

TR069Ops == {"TR069Client.get_parameter_values", "TR069Client.set_parameter_values",
             "TR069Client.download"}

USPOps == {"USPClient.get", "USPClient.set", "USPClient.operate"}

RestOps == WebPAOps \cup TR069Ops \cup USPOps

SnmpOps == {"SNMPClient.get", "SNMPClient.set", "SNMPClient.bulk_walk"}

\* What one HTTP invocation can do: raise httpx.TimeoutException, raise another
\* network exception, answer 401 / 403 / another non-success status, answer 2xx
\* with a body that is not JSON, or answer 2xx with a JSON body whose "status"
\* is one of the values below.
BodyStatuses == {"success", "pending", "completed", "error"}

Outcomes == {"timeout", "neterr", "401", "403", "httperr", "badjson"} \cup BodyStatuses

\* A mutant of DelayUnit: the units of the protocols are exchanged.
DelayUnitSwapped(o) == IF o \in TR069Ops THEN 1 ELSE 2

\* asyncio.sleep(unit * (attempt + 1)): the unit of each protocol.
DelayUnit(o) == IF o \in TR069Ops THEN 2 ELSE 1

\* The body statuses on which the operation returns a result.
ReturnsOn(o) ==
    CASE o \in WebPAOps -> BodyStatuses
      [] o = "TR069Client.get_parameter_values" -> {"success", "pending"}
      [] o = "TR069Client.set_parameter_values" -> {"success", "pending"}
      [] o = "TR069Client.download" -> BodyStatuses
      [] o = "USPClient.get" -> {"success"}
      [] o = "USPClient.set" -> {"success", "completed"}
      [] o = "USPClient.operate" -> BodyStatuses

\* Exceptions: the class the executor's except clauses tell apart, and where
\* the message comes from.
Exc(c, m) == [cls |-> c, msg |-> m]

NoExc == Exc("none", "")

VARIABLES
    status,     \* jobs.status of the job
    job_results,\* the job_results rows whose job_id is the job's, oldest first
    upserts,    \* the details of every committed result write, in order
    kind,       \* the job's kind
    retries,    \* config.retries of the client built for the job
    mode,       \* USPConfig.mode
    pc,         \* the executor run's position in _run
    seen,       \* the status read by _check_cancellation ("" before it ran)
    client,     \* the protocol client object of the run: "none", "live", "closed"
    exc,        \* the exception being handled by the run
    writes,     \* statuses committed by the run, in order
    op,         \* the client operation in progress
    cl,         \* its state: "idle", "running", "returned", "raised"
    attempt,    \* loop variable of the retry loop
    log,        \* HTTP invocations and backoff sleeps of the operation, in order
    clRet,      \* the value the operation returned
    clExc,      \* the exception the operation raised
    httpLive,   \* self._client is not None
    cancels,    \* positions of the run at which cancellation was requested
    delivery,   \* how many times the job's task message has been delivered
    tenant_id,  \* request.state.tenant_id of the subscriber of the event stream
    user_id,    \* request.state.user_id of the subscriber
    visible,    \* whether the subscriber's SELECT returns the job's row
    stream,     \* the event stream's position: "off", "start", "polling", "ended"
    polls,      \* iterations of the stream's loop begun so far
    last_status,\* last_status of _sse_event_stream
    events,     \* the events the stream has yielded, in order
    history,    \* the statuses the job's row has had, in commit order, from the
                \* moment an event stream was requested on the job
    snmp_op,    \* the SNMPClient method called: "none", "get", "set", "bulk_walk"
    max_rows,   \* max_rows of the bulk_walk call
    results,    \* results of bulk_walk: how many var-binds each response added
    response,   \* the last response the SNMP engine handed to the method
    snmp_pc,    \* the method's state: "off", "called", "returned", "raised"
    snmp_exc,   \* the class of the exception the method raised
    inst,       \* the class of the REST-backed client instance ("none": no instance)
    self_client,\* its self._client: NoClient or the httpx.AsyncClient object's number
    open_clients,\* the httpx.AsyncClient objects constructed and not closed
    constructed,\* how many httpx.AsyncClient objects have been constructed
    calls,      \* the methods called on the instance, in order
    self_tenant_id,\* self.tenant_id of the task object the invocations share
    self_user_id,\* self.user_id of the task object
    run_pc,     \* the position of each invocation
    session_ctx,\* the context each invocation applied to its session
    store_log,  \* the store accesses of the invocations, with their context
    request_state,\* request.state of the request to an enqueue endpoint
    api_pc,     \* the endpoint's position: "off", "received", "inserted", ...
    inserted,   \* the jobs rows the request has committed
    broker,     \* the task messages the request has sent
    http_response\* the status code the request was answered with (0: not yet)

vars == <<status, job_results, upserts, kind, retries, mode, pc, seen, client, exc, writes,
          op, cl, attempt, log, clRet, clExc, httpLive, cancels, delivery,
          tenant_id, user_id, visible, stream, polls, last_status, events, history,
          snmp_op, max_rows, results, response, snmp_pc, snmp_exc,
          inst, self_client, open_clients, constructed, calls,
          self_tenant_id, self_user_id, run_pc, session_ctx, store_log,
          request_state, api_pc, inserted, broker, http_response>>

storeVars == <<status, job_results, upserts, writes, history>>
jobVars == <<kind, retries, mode, delivery>>
execVars == <<pc, seen, client, exc>>
clientVars == <<op, cl, attempt, log, clRet, clExc, httpLive>>
notifierVars == <<tenant_id, user_id, visible, stream, polls, last_status, events>>
snmpVars == <<snmp_op, max_rows, results, response, snmp_pc, snmp_exc>>
instanceVars == <<inst, self_client, open_clients, constructed, calls>>
rlsVars == <<self_tenant_id, self_user_id, run_pc, session_ctx, store_log>>
unitVars == <<snmpVars, instanceVars, rlsVars>>
apiVars == <<request_state, api_pc, inserted, broker, http_response>>

\* last_status: Optional[str] = None
NoStatus == "<None>"

\* A status has been committed to the job's row: it extends the history an
\* open event stream can observe.
Committed(st) == IF stream = "off" THEN history ELSE Append(history, st)

\* No response has been received.
NoResponse == [error_indication |-> <<>>, error_status |-> 0, var_binds |-> 0, raises |-> FALSE]

\* No SNMPClient method is being called.
SnmpOff ==
    /\ snmp_op = "none"
    /\ max_rows = 0
    /\ results = <<>>
    /\ response = NoResponse
    /\ snmp_pc = "off"
    /\ snmp_exc = "none"

\* self._client is None
NoClient == 0

\* No REST-backed client instance is being exercised on its own.
InstanceOff ==
    /\ inst = "none"
    /\ self_client = NoClient
    /\ open_clients = {}
    /\ constructed = 0
    /\ calls = <<>>

\* tenant_id: Optional[str] = None, the class attribute of RLSTask
NoTenant == 0

\* No invocations are overlapping in the worker.
InvocationsOff ==
    /\ self_tenant_id = NoTenant
    /\ self_user_id = NoTenant
    /\ run_pc = <<>>
    /\ session_ctx = <<>>
    /\ store_log = <<>>

\* The components exercised on their own are idle.
UnitsIdle == SnmpOff /\ InstanceOff /\ InvocationsOff

\* The job was submitted by a request that has been answered.
EndpointOff ==
    /\ request_state = [tenant_id |-> "tenant-1", user_id |-> "user-1"]
    /\ api_pc = "off"
    /\ inserted = <<>>
    /\ broker = <<>>
    /\ http_response = 0

\* No event stream is open.
NotifierOff ==
    /\ tenant_id = "tenant-1"
    /\ user_id = "user-1"
    /\ visible = TRUE
    /\ stream = "off"
    /\ polls = 0
    /\ last_status = NoStatus
    /\ events = <<>>

----------------------------------------------------------------------------
\* The job record store.

\* details: Optional[Dict] = None
None == [isNone |-> TRUE]

NoRow == [exists |-> FALSE]

\* What a reader of the job's result gets (jobs j LEFT JOIN job_results r).
result == IF job_results = <<>> THEN NoRow ELSE job_results[1]

\* A mutant of Upsert: ON CONFLICT (job_id) DO NOTHING.
UpsertDoNothing(rows, row) == IF rows = <<>> THEN <<row>> ELSE rows

\* INSERT INTO job_results ... ON CONFLICT (job_id) DO UPDATE SET result =
\* EXCLUDED.result: the row of the job is replaced, or inserted when there is none.
Upsert(rows, row) ==
    IF rows = <<>> THEN <<row>> ELSE [i \in 1..Len(rows) |-> row]

CancelDetails == [message |-> "Job cancelled by user"]

\* The arguments the job's task is called with.
Args ==
    [oid |-> "1.3.6.1.2.1.1.1.0", path |-> "Device.WiFi.SSID.1.SSID",
     device_id |-> "cpe-1", parameters |-> <<"Device.WiFi.SSID.1.SSID">>,
     value |-> "v"]

\* A mutant of SuccessDetails: the payload does not name the target.
SuccessDetailsNoTarget(k, r) ==
    [protocol |-> Protocol(k), operation |-> Operation(k), result |-> r]

\* The payload of the 'completed' write of each task; r is what the client
\* returned (for a bulk walk, the one row of the walk).
SuccessDetails(k, r) ==
    CASE k = "SNMP_GET" ->
           [protocol |-> Protocol(k), operation |-> Operation(k), oid |-> Args.oid,
            result |-> r]
      [] k = "SNMP_SET" ->
           [protocol |-> Protocol(k), operation |-> Operation(k), oid |-> Args.oid,
            value |-> Args.value, result |-> r]
      [] k = "SNMP_BULKWALK" ->
           [protocol |-> Protocol(k), operation |-> Operation(k), oid |-> Args.oid,
            count |-> Len(<<r>>), results |-> <<r>>]
      [] k = "WEBPA_GET" ->
           [protocol |-> Protocol(k), operation |-> Operation(k), path |-> Args.path,
            result |-> r]
      [] k = "WEBPA_SET" ->
           [protocol |-> Protocol(k), operation |-> Operation(k), path |-> Args.path,
            value |-> Args.value, result |-> r]
      [] k \in {"TR069_GET", "TR069_SET"} ->
           [protocol |-> Protocol(k), operation |-> Operation(k),
            device_id |-> Args.device_id, parameters |-> Args.parameters, result |-> r]
      [] k = "USP_GET" ->
           [protocol |-> Protocol(k), operation |-> Operation(k),
            device_id |-> Args.device_id, path |-> Args.path, result |-> r]
      [] k = "USP_SET" ->
           [protocol |-> Protocol(k), operation |-> Operation(k),
            device_id |-> Args.device_id, path |-> Args.path, value |-> Args.value,
            result |-> r]

\* A mutant of ErrorKind: the client-error base class is tested first, so its
\* TimeoutError and AuthError subclasses are reported as '<protocol>_error'.
ErrorKindBaseClassFirst(k, e) ==
    CASE e.cls \in {"timeout", "auth", "client"} -> Protocol(k) \o "_error"
      [] OTHER -> "unexpected"

\* error_type chosen by the except clauses of the tasks.
ErrorKind(k, e) ==
    CASE e.cls = "timeout" -> "timeout"
      [] e.cls = "auth" -> "authentication"
      [] e.cls = "client" -> Protocol(k) \o "_error"
      [] OTHER -> "unexpected"

ErrorDetails(k, e) == [error |-> ErrorKind(k, e), message |-> e.msg]

\* A mutant of UpdateJobStatus: the UPDATE leaves a cancelled job alone.
UpdateJobStatusKeepCancelled(st, details, progress) ==
    /\ status' = IF status = "cancelled" THEN status ELSE st
    /\ job_results' =
         IF details # None /\ status # "cancelled"
         THEN Upsert(job_results, [exists |-> TRUE, result |-> details, progress |-> progress])
         ELSE job_results
    /\ upserts' = IF details # None /\ status # "cancelled"
                  THEN Append(upserts, details) ELSE upserts
    /\ writes' = IF status = "cancelled" THEN writes ELSE Append(writes, st)
    /\ history' = IF status = "cancelled" THEN history ELSE Committed(st)

\* A mutant of UpdateJobStatus: the status UPDATE is committed on its own and
\* the result upsert is lost.
UpdateJobStatusStatusOnly(st, details, progress) ==
    /\ status' = st
    /\ UNCHANGED <<job_results, upserts>>
    /\ writes' = Append(writes, st)
    /\ history' = Committed(st)

\* _update_job_status: UPDATE jobs SET status (unconditionally), upsert the
\* job_results row when details is given, commit both together.
UpdateJobStatus(st, details, progress) ==
    /\ status' = st
    /\ job_results' =
         IF details # None
         THEN Upsert(job_results, [exists |-> TRUE, result |-> details, progress |-> progress])
         ELSE job_results
    /\ upserts' = IF details # None THEN Append(upserts, details) ELSE upserts
    /\ writes' = Append(writes, st)
    /\ history' = Committed(st)

\* A mutant of IsCancelled: only `row is not None` is tested.
IsCancelledRowExists(s) == s # ""

\* _check_cancellation: row is not None and row[0] == "cancelled"
IsCancelled(s) == s = "cancelled"

\* The caller-facing layer flips status to 'cancelled' while queued or running.
RequestCancel ==
    /\ status \in {"queued", "running"}
    /\ status' = "cancelled"
    /\ history' = Committed("cancelled")
    /\ cancels' = cancels \cup {pc}
    /\ UNCHANGED <<job_results, upserts, writes, jobVars, execVars, clientVars, notifierVars, unitVars, apiVars>>

----------------------------------------------------------------------------
\* The retry loop of the REST-backed client operations.

HttpEvent(out) == [ev |-> "http", out |-> out, secs |-> 0]

SleepEvent(n) == [ev |-> "sleep", out |-> "", secs |-> n]

SnmpEvent(out) == [ev |-> "snmp", out |-> out, secs |-> 0]

\* A mutant of Classify: the `except AuthError: raise` clause is missing, so a
\* 401/403 falls to `except Exception`.
ClassifyAuthRetried(o, out) ==
    CASE out = "timeout" -> "timeout"
      [] out \in {"401", "403"} -> "other"
      [] out = "httperr" -> "status"
      [] out \in {"neterr", "badjson"} -> "other"
      [] out \in BodyStatuses -> IF out \in ReturnsOn(o) THEN "return" ELSE "other"

\* The except clause that handles what one iteration of the loop body does.
\* A protocol error raised inside the try (a body whose status is no success
\* value) is no TimeoutException, AuthError or HTTPStatusError: `except
\* Exception` catches it, like a network error or a body that is not JSON.
Classify(o, out) ==
    CASE out = "timeout" -> "timeout"
      [] out \in {"401", "403"} -> "auth"
      [] out = "httperr" -> "status"
      [] out \in {"neterr", "badjson"} -> "other"
      [] out \in BodyStatuses -> IF out \in ReturnsOn(o) THEN "return" ELSE "other"

\* One iteration `attempt` of `for attempt in range(retries)`.
Iteration(o, out, att, n) ==
    LET c == Classify(o, out)
        last == att = n - 1
    IN  CASE c = "return" -> [act |-> "return", val |-> out, exc |-> NoExc]
          [] c = "auth" -> [act |-> "raise", val |-> "none", exc |-> Exc("auth", "auth")]
          [] c = "status" -> [act |-> "raise", val |-> "none", exc |-> Exc("client", "http_status")]
          [] c = "timeout" ->
                IF last THEN [act |-> "raise", val |-> "none", exc |-> Exc("timeout", "timeout")]
                        ELSE [act |-> "retry", val |-> "none", exc |-> NoExc]
          [] c = "other" ->
                IF last THEN [act |-> "raise", val |-> "none", exc |-> Exc("client", "unexpected")]
                        ELSE [act |-> "retry", val |-> "none", exc |-> NoExc]

\* A mutant of ClientBegin: USP get/set go to the HTTP loop whatever the mode.
ClientBeginIgnoreMode(o) ==
    /\ op' = o
    /\ attempt' = 0
    /\ log' = <<>>
    /\ clRet' = "none"
    /\ cl' = "running"
    /\ clExc' = NoExc
    /\ httpLive' = IF o \in RestOps THEN TRUE ELSE httpLive

\* The operation is entered: USP get/set dispatch on the transport mode
\* first; every other REST operation gets the HTTP client (self._get_client())
\* and enters the loop.
ClientBegin(o) ==
    /\ op' = o
    /\ attempt' = 0
    /\ log' = <<>>
    /\ clRet' = "none"
    /\ IF o \in {"USPClient.get", "USPClient.set"} /\ mode # "http"
       THEN /\ cl' = "raised"
            /\ clExc' = Exc("client", "transport")
            /\ UNCHANGED httpLive
       ELSE /\ cl' = "running"
            /\ clExc' = NoExc
            /\ httpLive' = IF o \in RestOps THEN TRUE ELSE httpLive

\* One HTTP invocation and the handling of what it does.
ClientAttempt ==
    /\ cl = "running"
    /\ op \in RestOps
    /\ attempt < retries
    /\ \E out \in Outcomes :
         LET it == Iteration(op, out, attempt, retries)
         IN  /\ log' = IF it.act = "retry"
                       THEN log \o <<HttpEvent(out), SleepEvent(DelayUnit(op) * (attempt + 1))>>
                       ELSE Append(log, HttpEvent(out))
             /\ attempt' = IF it.act = "retry" THEN attempt + 1 ELSE attempt
             /\ cl' = CASE it.act = "retry" -> "running"
                        [] it.act = "return" -> "returned"
                        [] it.act = "raise" -> "raised"
             /\ clRet' = it.val
             /\ clExc' = it.exc
    /\ UNCHANGED <<op, httpLive, storeVars, jobVars, execVars, cancels, notifierVars, unitVars, apiVars>>

\* The statement after the loop: raise ClientError("... failed after N retries").
LoopExhausted ==
    /\ cl = "running"
    /\ op \in RestOps
    /\ attempt >= retries
    /\ cl' = "raised"
    /\ clExc' = Exc("client", "exhausted")
    /\ UNCHANGED <<op, attempt, log, clRet, httpLive, storeVars, jobVars, execVars, cancels, notifierVars, unitVars, apiVars>>

SnmpOutcomes == {"ok", "timeout", "auth", "client", "other"}

\* SNMP get/set/bulk_walk: one call of the transport layer, which holds its own
\* retries. "other" is an exception raised before the try (building the
\* transport target).
SnmpCall ==
    /\ cl = "running"
    /\ op \in SnmpOps
    /\ \E out \in SnmpOutcomes :
         /\ log' = Append(log, SnmpEvent(out))
         /\ cl' = IF out = "ok" THEN "returned" ELSE "raised"
         /\ clRet' = IF out = "ok" THEN "value" ELSE "none"
         /\ clExc' = IF out = "ok" THEN NoExc ELSE Exc(out, out)
    /\ UNCHANGED <<op, attempt, httpLive, storeVars, jobVars, execVars, cancels, notifierVars, unitVars, apiVars>>

----------------------------------------------------------------------------
\* One executor run: the _run coroutine of a job.* task.

\* A mutant of AfterCancelWrite: the `return` after the 'cancelled' write is missing.
AfterCancelWriteNoReturn == "constructing"

\* A mutant of AfterFailedWrite: the run goes back to the protocol call after
\* recording a failure.
AfterFailedWriteRetries == "dispatched"

\* `return` after the 'cancelled' write.
AfterCancelWrite == "done"

\* A mutant of AfterFailedWrite: the handler falls through to the statements
\* that follow the protocol call.
AfterFailedWriteFallThrough == "closing"

\* The except clauses end the try statement, and _run with it.
AfterFailedWrite == "done"

\* await _update_job_status(session, job_id, "running", progress=10)
MarkRunning ==
    /\ pc = "queued"
    /\ UpdateJobStatus("running", None, 10)
    /\ pc' = "started"
    /\ UNCHANGED <<seen, client, exc, jobVars, clientVars, cancels, notifierVars, unitVars, apiVars>>

\* await _check_cancellation(session, job_id)
CheckCancellation ==
    /\ pc = "started"
    /\ seen' = status
    /\ pc' = IF IsCancelled(status) THEN "cancelling" ELSE "constructing"
    /\ UNCHANGED <<client, exc, storeVars, jobVars, clientVars, cancels, notifierVars, unitVars, apiVars>>

\* The branch taken when the checkpoint returned True: write 'cancelled', return.
WriteCancelled ==
    /\ pc = "cancelling"
    /\ UpdateJobStatus("cancelled", CancelDetails, NoProgress)
    /\ pc' = AfterCancelWrite
    /\ UNCHANGED <<seen, client, exc, jobVars, clientVars, cancels, notifierVars, unitVars, apiVars>>

\* client = create_*_client(...)
CreateClient ==
    /\ pc = "constructing"
    /\ client' = "live"
    /\ pc' = "constructed"
    /\ UNCHANGED <<seen, exc, storeVars, jobVars, clientVars, cancels, notifierVars, unitVars, apiVars>>

\* Building the client raises (endpoint without "base_url", an unknown USP
\* mode, ...): no client error class, so `except Exception` handles it.
CreateClientRaises ==
    /\ pc = "constructing"
    /\ exc' = Exc("other", "construct")
    /\ pc' = "raised"
    /\ UNCHANGED <<seen, client, storeVars, jobVars, clientVars, cancels, notifierVars, unitVars, apiVars>>

\* await _update_job_status(session, job_id, "running", progress=50 or 30)
MarkDispatched ==
    /\ pc = "constructed"
    /\ UpdateJobStatus("running", None, PreDispatchProgress(kind))
    /\ pc' = "dispatched"
    /\ UNCHANGED <<seen, client, exc, jobVars, clientVars, cancels, notifierVars, unitVars, apiVars>>

\* result = await client.<operation>(...): the operation is entered.
Invoke ==
    /\ pc = "dispatched"
    /\ ClientBegin(ClientOp(kind))
    /\ pc' = "calling"
    /\ UNCHANGED <<seen, client, exc, storeVars, jobVars, cancels, notifierVars, unitVars, apiVars>>

\* The operation returned its result.
CallReturns ==
    /\ pc = "calling"
    /\ cl = "returned"
    /\ pc' = "closing"
    /\ UNCHANGED <<seen, client, exc, storeVars, jobVars, clientVars, cancels, notifierVars, unitVars, apiVars>>

\* The operation raised: control passes to the except clauses.
CallRaises ==
    /\ pc = "calling"
    /\ cl = "raised"
    /\ exc' = clExc
    /\ pc' = "raised"
    /\ UNCHANGED <<seen, client, storeVars, jobVars, clientVars, cancels, notifierVars, unitVars, apiVars>>

\* await client.close(), reached only when the operation returned.
CloseClient ==
    /\ pc = "closing"
    /\ client' = "closed"
    /\ httpLive' = FALSE
    /\ pc' = "closed"
    /\ UNCHANGED <<seen, exc, storeVars, jobVars, op, cl, attempt, log, clRet, clExc, cancels, notifierVars, unitVars, apiVars>>

\* await client.close() raises (aclose() of a live HTTP client).
CloseClientRaises ==
    /\ pc = "closing"
    /\ httpLive
    /\ exc' = Exc("other", "close")
    /\ pc' = "raised"
    /\ UNCHANGED <<seen, client, storeVars, jobVars, clientVars, cancels, notifierVars, unitVars, apiVars>>

\* await _update_job_status(session, job_id, "completed", {...}, progress=100)
WriteCompleted ==
    /\ pc = "closed"
    /\ UpdateJobStatus("completed", SuccessDetails(kind, clRet), 100)
    /\ pc' = "done"
    /\ UNCHANGED <<seen, client, exc, jobVars, clientVars, cancels, notifierVars, unitVars, apiVars>>

\* The except clauses: await _update_job_status(session, job_id, "failed", {...})
WriteFailed ==
    /\ pc = "raised"
    /\ UpdateJobStatus("failed", ErrorDetails(kind, exc), NoProgress)
    /\ pc' = AfterFailedWrite
    /\ UNCHANGED <<seen, client, exc, jobVars, clientVars, cancels, notifierVars, unitVars, apiVars>>

\* A statement of the try body that talks to the store raises: one of the
\* _update_job_status calls or the SELECT of _check_cancellation.  Nothing of
\* the raising call is committed; `except Exception` catches the error.
StoreWriteRaises ==
    /\ pc \in {"queued", "started", "cancelling", "constructed", "closed"}
    /\ exc' = Exc("other", "store")
    /\ pc' = "raised"
    /\ UNCHANGED <<seen, client, storeVars, jobVars, clientVars, cancels, notifierVars, unitVars, apiVars>>

\* The _update_job_status call of an except clause raises: the exception leaves
\* _run through get_db_session (rollback, re-raise) and the task raises.
WriteFailedRaises ==
    /\ pc = "raised"
    /\ pc' = "crashed"
    /\ UNCHANGED <<seen, client, exc, storeVars, jobVars, clientVars, cancels, notifierVars, unitVars, apiVars>>

----------------------------------------------------------------------------
\* Specifications.

\* cred.get("retries", 3): the SNMP transport's own retry count.
DefaultRetries == 3

\* A job row inserted with status 'queued' and its task dispatched.
Init ==
    /\ status = "queued"
    /\ job_results = <<>>
    /\ upserts = <<>>
    /\ kind \in Kinds
    /\ retries \in IF kind \in RestKinds THEN 0..MaxRetries ELSE {DefaultRetries}
    /\ mode \in IF kind \in {"USP_GET", "USP_SET"} THEN Modes ELSE {"http"}
    /\ pc = "queued"
    /\ seen = ""
    /\ client = "none"
    /\ exc = NoExc
    /\ writes = <<>>
    /\ history = <<status>>
    /\ EndpointOff
    /\ UnitsIdle
    /\ op = "none"
    /\ cl = "idle"
    /\ attempt = 0
    /\ log = <<>>
    /\ clRet = "none"
    /\ clExc = NoExc
    /\ httpLive = FALSE
    /\ cancels = {}
    /\ delivery = 1
    /\ NotifierOff

Executor ==
    \/ MarkRunning
    \/ CheckCancellation
    \/ WriteCancelled
    \/ CreateClient
    \/ CreateClientRaises
    \/ MarkDispatched
    \/ Invoke
    \/ CallReturns
    \/ CallRaises
    \/ CloseClient
    \/ WriteCompleted
    \/ WriteFailed

ClientSteps ==
    \/ ClientAttempt
    \/ LoopExhausted
    \/ SnmpCall

Next == Executor \/ ClientSteps \/ RequestCancel

\* One executor run of one job, with external cancellation requests.
Spec == Init /\ [][Next]_vars

NextFault == Next \/ CloseClientRaises

\* The same, where client.close() may raise.
SpecFault == Init /\ [][NextFault]_vars

NextStoreFault == NextFault \/ StoreWriteRaises \/ WriteFailedRaises

\* The same, where the statements that talk to the store may raise as well.
SpecStoreFault == Init /\ [][NextStoreFault]_vars

\* How many times the broker delivers the job's task message.
MaxDeliveries == 2

\* A mutant of Redeliver: the job is put back to 'queued' for its next run.
RedeliverRequeues ==
    /\ pc = "done"
    /\ delivery < MaxDeliveries
    /\ delivery' = delivery + 1
    /\ status' = "queued"
    /\ history' = Committed("queued")
    /\ pc' = "queued"
    /\ seen' = ""
    /\ client' = "none"
    /\ exc' = NoExc
    /\ op' = "none"
    /\ cl' = "idle"
    /\ attempt' = 0
    /\ log' = <<>>
    /\ clRet' = "none"
    /\ clExc' = NoExc
    /\ httpLive' = FALSE
    /\ cancels' = {}
    /\ UNCHANGED <<job_results, upserts, writes, kind, retries, mode, notifierVars, unitVars, apiVars>>

\* The task message is delivered again after the run it started has ended: the
\* task is called again with the same job_id and runs _run from its first
\* statement, with a new session and a new client; the store keeps its rows.
Redeliver ==
    /\ pc = "done"
    /\ delivery < MaxDeliveries
    /\ delivery' = delivery + 1
    /\ pc' = "queued"
    /\ seen' = ""
    /\ client' = "none"
    /\ exc' = NoExc
    /\ op' = "none"
    /\ cl' = "idle"
    /\ attempt' = 0
    /\ log' = <<>>
    /\ clRet' = "none"
    /\ clExc' = NoExc
    /\ httpLive' = FALSE
    /\ cancels' = {}
    /\ UNCHANGED <<storeVars, kind, retries, mode, notifierVars, unitVars, apiVars>>

\* config.retries of the clients of the redelivered jobs.
MaxRedeliveryRetries == 1

\* A job row inserted with status 'queued' and its task dispatched.
InitRedelivery ==
    /\ status = "queued"
    /\ job_results = <<>>
    /\ upserts = <<>>
    /\ kind \in Kinds
    /\ retries \in IF kind \in RestKinds THEN 0..MaxRedeliveryRetries ELSE {DefaultRetries}
    /\ mode \in IF kind \in {"USP_GET", "USP_SET"} THEN Modes ELSE {"http"}
    /\ pc = "queued"
    /\ seen = ""
    /\ client = "none"
    /\ exc = NoExc
    /\ writes = <<>>
    /\ history = <<status>>
    /\ EndpointOff
    /\ UnitsIdle
    /\ op = "none"
    /\ cl = "idle"
    /\ attempt = 0
    /\ log = <<>>
    /\ clRet = "none"
    /\ clExc = NoExc
    /\ httpLive = FALSE
    /\ cancels = {}
    /\ delivery = 1
    /\ NotifierOff

NextRedelivery == Next \/ Redeliver

\* Runs of one job's task, one after the other, on the same rows.
SpecRedelivery == InitRedelivery /\ [][NextRedelivery]_vars

\* A client operation called directly on a fresh client instance.
InitClient ==
    /\ status = "queued"
    /\ job_results = <<>>
    /\ upserts = <<>>
    /\ kind = "none"
    /\ retries \in 0..MaxRetries
    /\ op \in RestOps
    /\ mode \in IF op \in USPOps THEN Modes ELSE {"http"}
    /\ pc = "direct"
    /\ seen = ""
    /\ client = "live"
    /\ exc = NoExc
    /\ writes = <<>>
    /\ history = <<status>>
    /\ EndpointOff
    /\ UnitsIdle
    /\ cl = "idle"
    /\ attempt = 0
    /\ log = <<>>
    /\ clRet = "none"
    /\ clExc = NoExc
    /\ httpLive = FALSE
    /\ cancels = {}
    /\ delivery = 1
    /\ NotifierOff

DirectInvoke ==
    /\ pc = "direct"
    /\ cl = "idle"
    /\ ClientBegin(op)
    /\ UNCHANGED <<storeVars, jobVars, execVars, cancels, notifierVars, unitVars, apiVars>>

NextClient == DirectInvoke \/ ClientAttempt \/ LoopExhausted

SpecClient == InitClient /\ [][NextClient]_vars

\* The number of _update_job_status calls made on the job's rows.
MaxWrites == 3

\* The details the tasks pass to _update_job_status, and None.
Payloads ==
    {None, CancelDetails, SuccessDetails("SNMP_GET", "value"),
     ErrorDetails("SNMP_GET", Exc("timeout", "timeout"))}

\* The rows of one job, written by any sequence of _update_job_status calls
\* (several deliveries of the job's task write the same rows).
InitStore ==
    /\ status = "queued"
    /\ job_results = <<>>
    /\ upserts = <<>>
    /\ kind = "none"
    /\ retries = DefaultRetries
    /\ mode = "http"
    /\ pc = "store"
    /\ seen = ""
    /\ client = "none"
    /\ exc = NoExc
    /\ writes = <<>>
    /\ history = <<status>>
    /\ EndpointOff
    /\ UnitsIdle
    /\ op = "none"
    /\ cl = "idle"
    /\ attempt = 0
    /\ log = <<>>
    /\ clRet = "none"
    /\ clExc = NoExc
    /\ httpLive = FALSE
    /\ cancels = {}
    /\ delivery = 1
    /\ NotifierOff

\* One call _update_job_status(session, job_id, st, details, progress).
StoreWrite ==
    /\ pc = "store"
    /\ Len(writes) < MaxWrites
    /\ \E st \in {"running"} \cup Terminal, details \in Payloads,
          progress \in {NoProgress, 10, 50, 100} :
         UpdateJobStatus(st, details, progress)
    /\ UNCHANGED <<jobVars, execVars, clientVars, cancels, notifierVars, unitVars, apiVars>>

NextStore == StoreWrite

SpecStore == InitStore /\ [][NextStore]_vars

----------------------------------------------------------------------------
\* Submission: the enqueue endpoints and the call of the task they dispatch.

\* The kinds that have an enqueue endpoint.
EndpointKinds == {"SNMP_GET", "WEBPA_GET", "TR069_GET", "USP_GET"}

\* The keyword arguments the endpoint of each kind passes to send_task, without
\* _tenant_id and _user_id, which RLSTask.__call__ pops before calling run.
Dispatched(k) ==
    CASE k = "SNMP_GET" -> {"job_id", "device_ip", "oid", "cred"}
      [] k = "WEBPA_GET" -> {"job_id", "endpoint", "path"}
      [] k = "TR069_GET" -> {"job_id", "endpoint", "parameter"}
      [] k = "USP_GET" -> {"job_id", "endpoint", "path"}

\* The parameters of the task each endpoint names (self excluded); none of
\* them has a default and no task takes **kwargs.
TaskParams(k) ==
    CASE k = "SNMP_GET" -> {"job_id", "device_ip", "oid", "cred"}
      [] k = "WEBPA_GET" -> {"job_id", "endpoint", "path"}
      [] k = "TR069_GET" -> {"job_id", "endpoint", "device_id", "parameters"}
      [] k = "USP_GET" -> {"job_id", "endpoint", "device_id", "path"}

\* Python binds the call when every parameter is given and no other keyword is.
Binds(given, params) == params \subseteq given /\ given \subseteq params

\* The worker calls the task: RLSTask.__call__ runs self.run(**kwargs).  A call
\* that does not bind raises TypeError before _run exists; the job's rows are
\* not touched.
TaskCall ==
    /\ pc = "sent"
    /\ pc' = IF Binds(Dispatched(kind), TaskParams(kind)) THEN "queued" ELSE "rejected"
    /\ UNCHANGED <<seen, client, exc, storeVars, jobVars, clientVars, cancels, notifierVars, unitVars, apiVars>>

\* A job row inserted by an enqueue endpoint and its task message sent.
InitEnqueue ==
    /\ status = "queued"
    /\ job_results = <<>>
    /\ upserts = <<>>
    /\ kind \in EndpointKinds
    /\ retries \in IF kind \in RestKinds THEN 0..MaxRetries ELSE {DefaultRetries}
    /\ mode \in IF kind = "USP_GET" THEN Modes ELSE {"http"}
    /\ pc = "sent"
    /\ seen = ""
    /\ client = "none"
    /\ exc = NoExc
    /\ writes = <<>>
    /\ history = <<status>>
    /\ EndpointOff
    /\ UnitsIdle
    /\ op = "none"
    /\ cl = "idle"
    /\ attempt = 0
    /\ log = <<>>
    /\ clRet = "none"
    /\ clExc = NoExc
    /\ httpLive = FALSE
    /\ cancels = {}
    /\ delivery = 1
    /\ NotifierOff

NextEnqueue == TaskCall \/ Next

SpecEnqueue == InitEnqueue /\ [][NextEnqueue]_vars

----------------------------------------------------------------------------
\* The notifier: _sse_event_stream, the generator behind GET /jobs/events/{job_id}.

\* for _ in range(120)
PollLimit == 120

\* request.state.tenant_id / user_id: None, an empty string, or an id.
NoId == "<None>"

TenantIds == {NoId, "", "tenant-1"}

UserIds == {NoId, "", "user-1"}

\* The truth value Python gives an Optional[str].
Truthy(x) == x \notin {NoId, ""}

\* A mutant of IdentityMissing: the stream is refused only when both are missing.
IdentityMissingBoth(t, u) == ~Truthy(t) /\ ~Truthy(u)

\* if not tenant_id or not user_id
IdentityMissing(t, u) == ~Truthy(t) \/ ~Truthy(u)

ErrorEvent == [ev |-> "error", data |-> [error |-> "unauthorized"]]

\* A mutant of Payload: the result is not read with the status.
PayloadNoResult(st, res) == [status |-> st, result |-> [exists |-> FALSE]]

\* payload = {"status": status_val, "result": result_val}; the result read is
\* the job_results row of the LEFT JOIN, '{}' (NoRow here) when there is none.
Payload(st, res) == [status |-> st, result |-> res]

\* A mutant of UpdateEvent: every update reports the job as completed.
UpdateEventAsCompleted(st, res) == [ev |-> "update", data |-> Payload("completed", res)]

\* The update event: yield of "event: update" with json.dumps(payload) as data.
UpdateEvent(st, res) == [ev |-> "update", data |-> Payload(st, res)]

DoneEvent(st, res) == [ev |-> "done", data |-> Payload(st, res)]

\* A mutant of EmitsUpdate: a terminal status is reported by the done event only.
EmitsUpdateNonTerminal(st, last) == st # last /\ st \notin {"completed", "failed"}

\* A mutant of EmitsUpdate: every poll that sees the row emits an update.
EmitsUpdateAlways(st, last) == TRUE

\* if status_val != last_status
EmitsUpdate(st, last) == st # last

\* if status_val in ("completed", "failed")
EmitsDone(st) == st \in {"completed", "failed"}

\* A mutant of AfterDone: the `break` after the done event is missing.
AfterDoneNoBreak == "polling"

\* `break` after the done event: the generator ends.
AfterDone == "ended"

\* A mutant of InRange: the loop has no bound.
InRangeUnbounded(n) == n >= 0

\* range(120): the loop body runs while fewer than 120 iterations have begun.
InRange(n) == n < PollLimit

\* The generator's first statements: the identity check.
NotifierStart ==
    /\ stream = "start"
    /\ IF IdentityMissing(tenant_id, user_id)
       THEN /\ events' = Append(events, ErrorEvent)
            /\ stream' = "ended"
            /\ UNCHANGED last_status
       ELSE /\ last_status' = NoStatus
            /\ stream' = "polling"
            /\ UNCHANGED events
    /\ UNCHANGED <<tenant_id, user_id, visible, polls>>
    /\ UNCHANGED <<storeVars, jobVars, execVars, clientVars, cancels, unitVars, apiVars>>

\* One iteration of the loop: the SELECT in a session of its own, the update
\* and done events it leads to, then asyncio.sleep(0.5).
NotifierPoll ==
    /\ stream = "polling"
    /\ InRange(polls)
    /\ polls' = polls + 1
    /\ IF visible
       THEN LET upd == EmitsUpdate(status, last_status)
                fin == EmitsDone(status)
            IN  /\ last_status' = IF upd THEN status ELSE last_status
                /\ events' = events
                               \o (IF upd THEN <<UpdateEvent(status, result)>> ELSE <<>>)
                               \o (IF fin THEN <<DoneEvent(status, result)>> ELSE <<>>)
                /\ stream' = IF fin THEN AfterDone ELSE "polling"
       ELSE UNCHANGED <<last_status, events, stream>>
    /\ UNCHANGED <<tenant_id, user_id, visible>>
    /\ UNCHANGED <<storeVars, jobVars, execVars, clientVars, cancels, unitVars, apiVars>>

\* The loop has run its 120 iterations: the generator ends.
NotifierLoopEnds ==
    /\ stream = "polling"
    /\ ~InRange(polls)
    /\ stream' = "ended"
    /\ UNCHANGED <<tenant_id, user_id, visible, polls, last_status, events>>
    /\ UNCHANGED <<storeVars, jobVars, execVars, clientVars, cancels, unitVars, apiVars>>

\* A subscriber's stream on an SNMP_GET job, requested when the job has just
\* been created, while the job's run and cancellation requests go on.
InitNotifier ==
    /\ status = "queued"
    /\ job_results = <<>>
    /\ upserts = <<>>
    /\ kind = "SNMP_GET"
    /\ retries = DefaultRetries
    /\ mode = "http"
    /\ pc = "queued"
    /\ seen = ""
    /\ client = "none"
    /\ exc = NoExc
    /\ writes = <<>>
    /\ history = <<status>>
    /\ EndpointOff
    /\ UnitsIdle
    /\ op = "none"
    /\ cl = "idle"
    /\ attempt = 0
    /\ log = <<>>
    /\ clRet = "none"
    /\ clExc = NoExc
    /\ httpLive = FALSE
    /\ cancels = {}
    /\ delivery = 1
    /\ tenant_id \in TenantIds
    /\ user_id \in UserIds
    /\ visible \in BOOLEAN
    /\ stream = "start"
    /\ polls = 0
    /\ last_status = NoStatus
    /\ events = <<>>

Notifier == NotifierStart \/ NotifierPoll \/ NotifierLoopEnds

NextNotifier == Executor \/ SnmpCall \/ RequestCancel \/ Notifier

SpecNotifier == InitNotifier /\ [][NextNotifier]_vars

\* The same, where the server keeps driving the generator: each sleep returns
\* and each SELECT is answered.
SpecNotifierFair == SpecNotifier /\ WF_vars(Notifier)

----------------------------------------------------------------------------
\* The enqueue endpoints: POST /jobs/enqueue/..., _insert_job and _enqueue.

\* jobs.status of a job that has no row.
NoJob == "<absent>"

\* The name of the task each endpoint dispatches.
TaskName(k) ==
    CASE k = "SNMP_GET" -> "job.snmp_get"
      [] k = "WEBPA_GET" -> "job.webpa_get"
      [] k = "TR069_GET" -> "job.tr069_get"
      [] k = "USP_GET" -> "job.usp_get"

\* The row _insert_job inserts: tenant_id and requested_by are the session's
\* app.tenant_id and app.user_id, which get_db_session set from its arguments.
JobRow(id, t, u, k) ==
    [id |-> id, tenant_id |-> t, requested_by |-> u, kind |-> k, status |-> "queued"]

\* The message _enqueue sends.
Message(k, id, t, u) ==
    [task |-> TaskName(k), job_id |-> id, _tenant_id |-> t, _user_id |-> u]

\* A mutant of Unauthorized: only the tenant id is required.
UnauthorizedTenantOnly(t, u) == ~Truthy(t)

\* if not tenant_id or not user_id: raise HTTPException(status_code=401)
Unauthorized(t, u) == ~Truthy(t) \/ ~Truthy(u)

\* A mutant of Dispatchable: the task is sent before the row is inserted.
DispatchableEarly(p) == p \in {"received", "inserted"}

\* _enqueue is called once _insert_job has returned, that is once the session
\* of _insert_job has committed.
Dispatchable(p) == p = "inserted"

\* The endpoint refuses a request without tenant or user.
EndpointRejects ==
    /\ api_pc = "received"
    /\ Unauthorized(request_state.tenant_id, request_state.user_id)
    /\ http_response' = 401
    /\ api_pc' = "responded"
    /\ UNCHANGED <<request_state, inserted, broker>>
    /\ UNCHANGED <<storeVars, jobVars, execVars, clientVars, cancels, notifierVars, unitVars>>

\* _insert_job: the INSERT and the commit of its session.
InsertJob ==
    /\ api_pc = "received"
    /\ ~Unauthorized(request_state.tenant_id, request_state.user_id)
    /\ inserted' = Append(inserted, JobRow(Len(inserted) + 1, request_state.tenant_id,
                                           request_state.user_id, kind))
    /\ status' = "queued"
    /\ history' = Committed("queued")
    /\ api_pc' = "inserted"
    /\ UNCHANGED <<request_state, broker, http_response>>
    /\ UNCHANGED <<job_results, upserts, writes, jobVars, execVars, clientVars, cancels,
                   notifierVars, unitVars>>

\* _insert_job raises (the INSERT or the commit fails): the session rolls
\* back and the request fails.
InsertJobRaises ==
    /\ api_pc = "received"
    /\ ~Unauthorized(request_state.tenant_id, request_state.user_id)
    /\ http_response' = 500
    /\ api_pc' = "responded"
    /\ UNCHANGED <<request_state, inserted, broker>>
    /\ UNCHANGED <<storeVars, jobVars, execVars, clientVars, cancels, notifierVars, unitVars>>

\* _enqueue: celery_app.send_task(...), then the endpoint returns 202.
Enqueue ==
    /\ Dispatchable(api_pc)
    /\ pc = "unsent"
    /\ broker' = Append(broker, Message(kind, Len(inserted), request_state.tenant_id,
                                        request_state.user_id))
    /\ pc' = "sent"
    /\ http_response' = 202
    /\ api_pc' = "responded"
    /\ UNCHANGED <<request_state, inserted>>
    /\ UNCHANGED <<seen, client, exc, storeVars, jobVars, clientVars, cancels, notifierVars,
                   unitVars>>

\* send_task raises (the broker cannot be reached): the request fails after
\* the row was committed.
EnqueueRaises ==
    /\ Dispatchable(api_pc)
    /\ pc = "unsent"
    /\ http_response' = 500
    /\ api_pc' = "dispatch failed"
    /\ UNCHANGED <<request_state, inserted, broker>>
    /\ UNCHANGED <<storeVars, jobVars, execVars, clientVars, cancels, notifierVars, unitVars>>

\* config.retries of the clients of the submitted jobs.
MaxSubmitRetries == 1

\* A request to one of the enqueue endpoints has arrived.
InitSubmit ==
    /\ status = NoJob
    /\ job_results = <<>>
    /\ upserts = <<>>
    /\ kind \in EndpointKinds
    /\ retries \in IF kind \in RestKinds THEN 0..MaxSubmitRetries ELSE {DefaultRetries}
    /\ mode \in IF kind = "USP_GET" THEN Modes ELSE {"http"}
    /\ pc = "unsent"
    /\ seen = ""
    /\ client = "none"
    /\ exc = NoExc
    /\ writes = <<>>
    /\ history = <<>>
    /\ op = "none"
    /\ cl = "idle"
    /\ attempt = 0
    /\ log = <<>>
    /\ clRet = "none"
    /\ clExc = NoExc
    /\ httpLive = FALSE
    /\ cancels = {}
    /\ delivery = 1
    /\ NotifierOff
    /\ UnitsIdle
    /\ request_state \in [tenant_id : TenantIds, user_id : UserIds]
    /\ api_pc = "received"
    /\ inserted = <<>>
    /\ broker = <<>>
    /\ http_response = 0

Endpoint == EndpointRejects \/ InsertJob \/ InsertJobRaises \/ Enqueue \/ EnqueueRaises

NextSubmit == Endpoint \/ TaskCall \/ Next

SpecSubmit == InitSubmit /\ [][NextSubmit]_vars

----------------------------------------------------------------------------
\* The SNMP client: SNMPClient.get, set and bulk_walk.

\* How many var-binds one GETBULK response carries at most
\* (config.max_repetitions).
MaxRepetitions == 2

\* The values of max_rows that are tried.
MaxRows == 2

\* How many responses a walk receives at most.
MaxResponses == 3

\* How many fragments the text of an error indication has at most.
MaxFragments == 2

\* The text of an error indication is a sequence of fragments; upper-case
\* letters occur in some of them.
Fragments == {"timeout", "Timeout", "auth", "AUTH", "refused"}

\* str.lower() on a fragment.
Lower(w) ==
    CASE w = "Timeout" -> "timeout"
      [] w = "AUTH" -> "auth"
      [] OTHER -> w

\* needle in str(error_indication).lower()
Contains(text, needle) == \E i \in 1..Len(text) : Lower(text[i]) = needle

\* str(error_indication) of the indications an SNMP engine may report; the
\* empty text stands for error_indication being None.
Indications ==
    UNION {[1..n -> Fragments] : n \in 0..MaxFragments}

\* What the awaited command hands to the method: it raises, or it gives an
\* error indication, an error status and var-binds.
Responses ==
    [error_indication : Indications, error_status : {0, 2},
     var_binds : 0..MaxRepetitions, raises : BOOLEAN]

\* A mutant of IndicationError: 'auth' is looked for before 'timeout'.
IndicationErrorAuthFirst(text) ==
    IF Contains(text, "auth") THEN "auth"
    ELSE IF Contains(text, "timeout") THEN "timeout"
    ELSE "client"

\* if "timeout" in ...: raise SNMPTimeoutError; elif "auth" in ...: raise
\* SNMPAuthError; else: raise SNMPClientError
IndicationError(text) ==
    IF Contains(text, "timeout") THEN "timeout"
    ELSE IF Contains(text, "auth") THEN "auth"
    ELSE "client"

\* The class of the exception a response makes the method raise, "none" when
\* it raises nothing: any exception of the command is wrapped as
\* SNMPClientError, an error indication is classified by its text, a non-zero
\* error status is an SNMPClientError.
ResponseError(r) ==
    IF r.raises THEN "client"
    ELSE IF r.error_indication # <<>> THEN IndicationError(r.error_indication)
    ELSE IF r.error_status # 0 THEN "client"
    ELSE "none"

RECURSIVE Rows(_)
\* len(results)
Rows(res) == IF res = <<>> THEN 0 ELSE res[1] + Rows(Tail(res))

\* if len(results) >= max_rows: break
WalkStops(n, limit) == n >= limit

\* One response of getCmd, setCmd or of the bulkCmd iteration, and what the
\* method does with it: raise, return the first var-bind (get, set), or append
\* all the var-binds of the response to results and then test the row limit
\* (bulk_walk).
SnmpResponse ==
    /\ snmp_pc = "called"
    /\ Len(results) < MaxResponses
    /\ \E r \in Responses :
         /\ response' = r
         /\ IF ResponseError(r) # "none"
            THEN /\ snmp_pc' = "raised"
                 /\ snmp_exc' = ResponseError(r)
                 /\ UNCHANGED results
            ELSE IF snmp_op = "bulk_walk"
            THEN /\ results' = Append(results, r.var_binds)
                 /\ snmp_pc' = IF WalkStops(Rows(results'), max_rows)
                               THEN "returned" ELSE "called"
                 /\ UNCHANGED snmp_exc
            ELSE /\ snmp_pc' = IF r.var_binds > 0 THEN "returned" ELSE "raised"
                 /\ snmp_exc' = IF r.var_binds > 0 THEN snmp_exc ELSE "client"
                 /\ UNCHANGED results
    /\ UNCHANGED <<snmp_op, max_rows>>
    /\ UNCHANGED <<storeVars, jobVars, execVars, clientVars, cancels, notifierVars, instanceVars, rlsVars, apiVars>>

\* The bulkCmd iteration is exhausted: the walk has left the subtree.
SnmpWalkEnds ==
    /\ snmp_pc = "called"
    /\ snmp_op = "bulk_walk"
    /\ snmp_pc' = "returned"
    /\ UNCHANGED <<snmp_op, max_rows, results, response, snmp_exc>>
    /\ UNCHANGED <<storeVars, jobVars, execVars, clientVars, cancels, notifierVars, instanceVars, rlsVars, apiVars>>

\* One call of get, set or bulk_walk on an SNMP client.
InitSnmp ==
    /\ status = "queued"
    /\ job_results = <<>>
    /\ upserts = <<>>
    /\ kind = "none"
    /\ retries = DefaultRetries
    /\ mode = "http"
    /\ pc = "snmp"
    /\ seen = ""
    /\ client = "none"
    /\ exc = NoExc
    /\ writes = <<>>
    /\ history = <<status>>
    /\ EndpointOff
    /\ op = "none"
    /\ cl = "idle"
    /\ attempt = 0
    /\ log = <<>>
    /\ clRet = "none"
    /\ clExc = NoExc
    /\ httpLive = FALSE
    /\ cancels = {}
    /\ delivery = 1
    /\ NotifierOff
    /\ snmp_op \in {"get", "set", "bulk_walk"}
    /\ max_rows \in IF snmp_op = "bulk_walk" THEN 0..MaxRows ELSE {0}
    /\ results = <<>>
    /\ response = NoResponse
    /\ snmp_pc = "called"
    /\ snmp_exc = "none"
    /\ InstanceOff
    /\ InvocationsOff

NextSnmp == SnmpResponse \/ SnmpWalkEnds

SpecSnmp == InitSnmp /\ [][NextSnmp]_vars

----------------------------------------------------------------------------
\* The HTTP client object of a REST-backed client instance: _get_client and
\* close of WebPAClient, TR069Client and USPClient.

\* How many methods are called on one instance.
MaxCalls == 4

RestClasses == {"WebPAClient", "TR069Client", "USPClient"}

\* The methods of each class that talk to the device or controller.
InstanceOps(c) ==
    CASE c = "WebPAClient" -> WebPAOps
      [] c = "TR069Client" ->
           TR069Ops \cup {"TR069Client.get_device_info", "TR069Client.list_devices"}
      [] c = "USPClient" -> USPOps

\* Whether the method awaits self._get_client(): USP get and set do so only
\* in _http_get and _http_set, which they reach in HTTP mode.
UsesHttp(o, m) == ~(o \in {"USPClient.get", "USPClient.set"} /\ m # "http")

\* A mutant of GetClient: a new httpx.AsyncClient is constructed on every call.
GetClientAlwaysNew(c, n) == n + 1

\* _get_client: the object self._client refers to when the call returns, where
\* n objects have been constructed so far.
GetClient(c, n) == IF c = NoClient THEN n + 1 ELSE c

\* One entry of the call record.
Call(name, before, after, live) ==
    [name |-> name, before |-> before, after |-> after, live |-> live]

\* A method is called: it gets the HTTP client first, if it goes over HTTP.
\* Whether it then returns or raises, it leaves self._client as it is.
InstanceOperation ==
    /\ inst \in RestClasses
    /\ Len(calls) < MaxCalls
    /\ \E o \in InstanceOps(inst) :
         LET c == IF UsesHttp(o, mode) THEN GetClient(self_client, constructed)
                                      ELSE self_client
         IN  /\ self_client' = c
             /\ constructed' = IF c > constructed THEN c ELSE constructed
             /\ open_clients' = IF c > constructed THEN open_clients \cup {c}
                                                   ELSE open_clients
             /\ calls' = Append(calls, Call(o, self_client, c, open_clients'))
    /\ UNCHANGED inst
    /\ UNCHANGED <<storeVars, jobVars, execVars, clientVars, cancels, notifierVars, snmpVars, rlsVars, apiVars>>

\* close(): if self._client is not None, aclose() it and forget it.
InstanceClose ==
    /\ inst \in RestClasses
    /\ Len(calls) < MaxCalls
    /\ self_client' = NoClient
    /\ open_clients' = open_clients \ {self_client}
    /\ calls' = Append(calls, Call("close", self_client, NoClient, open_clients'))
    /\ UNCHANGED <<inst, constructed>>
    /\ UNCHANGED <<storeVars, jobVars, execVars, clientVars, cancels, notifierVars, snmpVars, rlsVars, apiVars>>

\* close() where aclose() raises: self._client keeps referring to the object,
\* which may or may not have released its connections.
InstanceCloseRaises ==
    /\ inst \in RestClasses
    /\ Len(calls) < MaxCalls
    /\ self_client # NoClient
    /\ \E released \in BOOLEAN :
         open_clients' = IF released THEN open_clients \ {self_client} ELSE open_clients
    /\ calls' = Append(calls, Call("close raised", self_client, self_client, open_clients'))
    /\ UNCHANGED <<inst, self_client, constructed>>
    /\ UNCHANGED <<storeVars, jobVars, execVars, clientVars, cancels, notifierVars, snmpVars, rlsVars, apiVars>>

\* A client instance of one of the three classes, just constructed.
InitInstance ==
    /\ status = "queued"
    /\ job_results = <<>>
    /\ upserts = <<>>
    /\ kind = "none"
    /\ retries = DefaultRetries
    /\ inst \in RestClasses
    /\ mode \in IF inst = "USPClient" THEN Modes ELSE {"http"}
    /\ pc = "instance"
    /\ seen = ""
    /\ client = "none"
    /\ exc = NoExc
    /\ writes = <<>>
    /\ history = <<status>>
    /\ EndpointOff
    /\ op = "none"
    /\ cl = "idle"
    /\ attempt = 0
    /\ log = <<>>
    /\ clRet = "none"
    /\ clExc = NoExc
    /\ httpLive = FALSE
    /\ cancels = {}
    /\ delivery = 1
    /\ NotifierOff
    /\ SnmpOff
    /\ self_client = NoClient
    /\ open_clients = {}
    /\ constructed = 0
    /\ calls = <<>>
    /\ InvocationsOff

NextInstance == InstanceOperation \/ InstanceClose \/ InstanceCloseRaises

SpecInstance == InitInstance /\ [][NextInstance]_vars

----------------------------------------------------------------------------
\* The tenant context of overlapping invocations: RLSTask.__call__ and the
\* session each _run opens.

\* How many invocations of one task overlap in the worker.
MaxInvocations == 2

Invocations == 1..MaxInvocations

\* How many times each invocation writes to the store.
MaxRunWrites == 2

\* The kwargs each message was dispatched with: job n belongs to tenant n and
\* was requested by user n.
Kwargs(n) == [job_id |-> n, _tenant_id |-> n, _user_id |-> n]

\* get_db_session(tenant_id=self.tenant_id, user_id=self.user_id): the context
\* invocation n opens its session with, where t and u are the attributes of
\* the task object at that moment.
ContextRead(n, t, u) == [tenant_id |-> t, user_id |-> u]

\* self.tenant_id = kwargs.pop("_tenant_id", None)
CallSetsTenant(n) ==
    /\ run_pc[n] = "delivered"
    /\ self_tenant_id' = Kwargs(n)._tenant_id
    /\ run_pc' = [run_pc EXCEPT ![n] = "tenant set"]
    /\ UNCHANGED <<self_user_id, session_ctx, store_log>>
    /\ UNCHANGED <<storeVars, jobVars, execVars, clientVars, cancels, notifierVars, snmpVars, instanceVars, apiVars>>

\* self.user_id = kwargs.pop("_user_id", None); return self.run(*args, **kwargs)
CallSetsUser(n) ==
    /\ run_pc[n] = "tenant set"
    /\ self_user_id' = Kwargs(n)._user_id
    /\ run_pc' = [run_pc EXCEPT ![n] = "run"]
    /\ UNCHANGED <<self_tenant_id, session_ctx, store_log>>
    /\ UNCHANGED <<storeVars, jobVars, execVars, clientVars, cancels, notifierVars, snmpVars, instanceVars, apiVars>>

\* _run: async with get_db_session(tenant_id=self.tenant_id, ...) as session;
\* the context is applied to the session once, when it is opened.
OpenSession(n) ==
    /\ run_pc[n] = "run"
    /\ session_ctx' = [session_ctx EXCEPT ![n] = ContextRead(n, self_tenant_id, self_user_id)]
    /\ run_pc' = [run_pc EXCEPT ![n] = "session"]
    /\ UNCHANGED <<self_tenant_id, self_user_id, store_log>>
    /\ UNCHANGED <<storeVars, jobVars, execVars, clientVars, cancels, notifierVars, snmpVars, instanceVars, apiVars>>

\* A store read or write of the invocation, made in its session.
SessionWrite(n) ==
    /\ run_pc[n] = "session"
    /\ store_log' = Append(store_log, [job_id |-> Kwargs(n).job_id,
                                       tenant_id |-> session_ctx[n].tenant_id,
                                       user_id |-> session_ctx[n].user_id])
    /\ run_pc' = [run_pc EXCEPT ![n] =
                    IF Cardinality({i \in 1..Len(store_log') :
                                      store_log'[i].job_id = Kwargs(n).job_id}) >= MaxRunWrites
                    THEN "done" ELSE "session"]
    /\ UNCHANGED <<self_tenant_id, self_user_id, session_ctx>>
    /\ UNCHANGED <<storeVars, jobVars, execVars, clientVars, cancels, notifierVars, snmpVars, instanceVars, apiVars>>

\* Messages of one task for jobs of different tenants, delivered to a worker
\* whose pool runs them in one process.
InitInvocations ==
    /\ status = "queued"
    /\ job_results = <<>>
    /\ upserts = <<>>
    /\ kind = "none"
    /\ retries = DefaultRetries
    /\ mode = "http"
    /\ pc = "invocations"
    /\ seen = ""
    /\ client = "none"
    /\ exc = NoExc
    /\ writes = <<>>
    /\ history = <<status>>
    /\ EndpointOff
    /\ op = "none"
    /\ cl = "idle"
    /\ attempt = 0
    /\ log = <<>>
    /\ clRet = "none"
    /\ clExc = NoExc
    /\ httpLive = FALSE
    /\ cancels = {}
    /\ delivery = 1
    /\ NotifierOff
    /\ SnmpOff
    /\ InstanceOff
    /\ self_tenant_id = NoTenant
    /\ self_user_id = NoTenant
    /\ run_pc = [n \in Invocations |-> "delivered"]
    /\ session_ctx = [n \in Invocations |-> [tenant_id |-> NoTenant, user_id |-> NoTenant]]
    /\ store_log = <<>>

NextInvocations ==
    \E n \in Invocations :
        CallSetsTenant(n) \/ CallSetsUser(n) \/ OpenSession(n) \/ SessionWrite(n)

SpecInvocations == InitInvocations /\ [][NextInvocations]_vars

----------------------------------------------------------------------------
\* Properties of the executor run.

Row(details, progress) == [exists |-> TRUE, result |-> details, progress |-> progress]

HttpCount(l) == Cardinality({i \in 1..Len(l) : l[i].ev = "http"})

NetworkCalls(l) == Cardinality({i \in 1..Len(l) : l[i].ev \in {"http", "snmp"}})

StatusEdges ==
    {<<"queued", "running">>, <<"queued", "cancelled">>, <<"running", "completed">>,
     <<"running", "failed">>, <<"running", "cancelled">>}

\* C1: under every interleaving of one executor run with external
\* cancellation requests, the stored status only moves along
\* queued -> running -> {completed, failed, cancelled}; once it is completed,
\* failed or cancelled no later write changes it.
C1_StatusMovesAlongEdges ==
    [][status' # status => <<status, status'>> \in StatusEdges]_vars

C3_CancelWhileQueuedHonoured ==
    "queued" \in cancels =>
        /\ pc \notin {"queued", "started"} => seen = "cancelled"
        /\ op = "none"
        /\ NetworkCalls(log) = 0
        /\ pc = "done" => status = "cancelled"

\* C4: when the checkpoint reads 'cancelled', the run builds no client, makes
\* no protocol call, and the only status it writes afterwards is 'cancelled'.
C4_ObservedCancellationSkipsCall ==
    seen = "cancelled" =>
        /\ client = "none"
        /\ op = "none"
        /\ ~httpLive
        /\ NetworkCalls(log) = 0
        /\ pc \in {"cancelling", "done"}
        /\ writes = IF pc = "done" THEN <<"running", "cancelled">> ELSE <<"running">>

\* The checkpoint read 'cancelled' and the run has ended.
C4_Witness == seen = "cancelled" /\ pc = "done" /\ status = "cancelled"

\* Cancellation was requested while the protocol call was in flight or after it.
CancelAfterCallStart ==
    /\ op # "none"
    /\ cancels \cap {"calling", "closing", "closed", "raised"} # {}

C6_CancelledOnlyWhenObserved ==
    \A i \in 1..Len(writes) :
        writes[i] = "cancelled" =>
            /\ seen = "cancelled"
            /\ \A j \in 1..(i - 1) : writes[j] \notin Terminal

C6_Witness == Len(writes) = 2 /\ writes[2] = "cancelled"

----------------------------------------------------------------------------
\* Properties of the REST-backed client operations.

Finished == cl \in {"returned", "raised"}

\* Every HTTP invocation of the operation timed out.
AllTimedOut == \A i \in 1..Len(log) : log[i].ev = "http" => log[i].out = "timeout"

\* C7: when every attempt times out, the operation makes exactly retries + 1
\* HTTP invocations before raising the protocol's TimeoutError.
C7_TimeoutAfterRetriesPlusOne ==
    (cl = "raised" /\ clExc.cls = "timeout") => HttpCount(log) = retries + 1

\* C8: a 401 or 403 on any attempt ends the operation at once with the
\* protocol's AuthError: no invocation and no sleep follows it, so an
\* authentication failure on the first attempt means exactly one invocation.
C8_AuthFailureNeverRetried ==
    \A i \in 1..Len(log) :
        (log[i].ev = "http" /\ log[i].out \in {"401", "403"}) =>
            /\ i = Len(log)
            /\ cl = "raised"
            /\ clExc.cls = "auth"
            /\ (i = 1 => HttpCount(log) = 1)

\* A 403 after a retried timeout, and nothing after it.
C8_Witness ==
    /\ cl = "raised"
    /\ Len(log) = 3
    /\ log[1].out = "timeout"
    /\ log[3].out = "403"

\* C9: for every retries value (0 and 1 included), when all attempts time out
\* the operation fails with the protocol's TimeoutError, never with the
\* generic client error and never with a result.
C9_ExhaustedTimeoutsRaiseTimeoutError ==
    (Finished /\ AllTimedOut /\ clExc.msg # "transport") =>
        cl = "raised" /\ clExc.cls = "timeout"

\* The failures that are neither a timeout/network exception nor a 401/403.
ProtocolFailure(o, out) ==
    \/ out = "httperr"
    \/ out \in BodyStatuses \ ReturnsOn(o)

\* C10: a non-success HTTP status or a body whose status is no success value
\* ends the operation at once with the generic client error: the failing
\* invocation is the only one, nothing is retried and nothing is slept.
C10_ProtocolErrorNeverRetried ==
    \A i \in 1..Len(log) :
        (log[i].ev = "http" /\ ProtocolFailure(op, log[i].out)) =>
            /\ i = Len(log)
            /\ cl = "raised"
            /\ clExc.cls = "client"

C12_PendingIsNotTerminal ==
    (kind \in {"TR069_GET", "TR069_SET"} /\ cl = "returned" /\ clRet = "pending")
        => status \notin {"completed", "failed"}

\* C13: when a run that created a protocol client ends, client.close() has been
\* called and no HTTP connection pool is left open, whether the protocol call
\* returned or raised.
C13_ClientClosedWhenRunEnds ==
    pc = "done" =>
        /\ client # "none" => client = "closed"
        /\ ~httpLive

\* C14: no error escapes an executor run: the task never raises, and a run in
\* which something raised ends with the job 'failed' and an {error, message}
\* payload.
C14_NoErrorEscapes ==
    /\ pc # "crashed"
    /\ (pc = "done" /\ exc # NoExc) =>
          /\ status = "failed"
          /\ result = Row(ErrorDetails(kind, exc), NoProgress)

\* C15: a run in which something raised ends 'failed' with the error kind chosen
\* by the error's class: 'timeout' for the protocol's TimeoutError,
\* 'authentication' for its AuthError, 'snmp_error', 'webpa_error',
\* 'tr069_error' or 'usp_error' for any other error of the protocol's client
\* error class, 'unexpected' for any other exception; the message is the
\* error's own.  The same holds for all nine tasks.
C15_ErrorKindByClass ==
    (pc = "done" /\ exc # NoExc) =>
        /\ status = "failed"
        /\ result.exists
        /\ result.result.message = exc.msg
        /\ result.result.error =
             CASE exc.cls = "timeout" -> "timeout"
               [] exc.cls = "auth" -> "authentication"
               [] exc.cls = "client" /\ kind \in {"SNMP_GET", "SNMP_SET", "SNMP_BULKWALK"} -> "snmp_error"
               [] exc.cls = "client" /\ kind \in {"WEBPA_GET", "WEBPA_SET"} -> "webpa_error"
               [] exc.cls = "client" /\ kind \in {"TR069_GET", "TR069_SET"} -> "tr069_error"
               [] exc.cls = "client" /\ kind \in {"USP_GET", "USP_SET"} -> "usp_error"
               [] OTHER -> "unexpected"

C15_Witness ==
    /\ pc = "done"
    /\ kind = "TR069_SET"
    /\ exc.cls = "auth"
    /\ status = "failed"
    /\ result.result.error = "authentication"

C18_UspNonHttpModesFailFast ==
    (op \in USPOps /\ mode \in {"mqtt", "websocket"}) =>
        /\ HttpCount(log) = 0
        /\ Finished => cl = "raised"

\* C19: in every committed state, a job whose status is 'completed' has a
\* JobResult row, and the row carries a payload.
C19_CompletedHasResultRow ==
    status = "completed" =>
        /\ job_results # <<>>
        /\ result.exists
        /\ result.result # None

C19_Witness ==
    /\ status = "completed"
    /\ pc = "done"
    /\ Len(job_results) = 1
    /\ job_results[1].progress = 100

\* C20: after any sequence of result writes for one job there is at most one
\* JobResult row for the job, and once a result has been written there is
\* exactly one, whose payload is that of the last committed write.
C20_UpsertKeepsOneRowLastWins ==
    /\ Len(job_results) <= 1
    /\ upserts # <<>> =>
          /\ Len(job_results) = 1
          /\ job_results[1].result = upserts[Len(upserts)]

C20_Witness ==
    /\ Len(upserts) = 2
    /\ upserts[1] # upserts[2]
    /\ Len(job_results) = 1
    /\ job_results[1].result = upserts[2]

\* C21: when the job's task is delivered again, the later run never changes a
\* status that is already 'completed', 'failed' or 'cancelled' back to 'running'.
C21_RedeliveryKeepsTerminalStatus ==
    [][(delivery > 1 /\ status \in Terminal) => status' # "running"]_vars

----------------------------------------------------------------------------
\* Properties of the notifier.

\* The update events of a stream, in order.
Updates(evs) == SelectSeq(evs, LAMBDA e : e.ev = "update")

CountOf(evs, name) == Cardinality({i \in 1..Len(evs) : evs[i].ev = name})

\* The status carried by the last update emitted so far.
LastUpdateStatus(evs) ==
    IF Updates(evs) = <<>> THEN NoStatus
    ELSE Updates(evs)[Len(Updates(evs))].data.status

\* C22: a poll emits an update event exactly when it sees the job's row with a
\* status other than the one carried by the previously emitted update (any
\* status, when none was emitted yet), and that update carries the status
\* seen; no two consecutive updates carry the same status.
C22_UpdateExactlyOnStatusChange ==
    [][polls' = polls + 1 =>
         /\ IF visible /\ status # LastUpdateStatus(events)
            THEN /\ Len(Updates(events')) = Len(Updates(events)) + 1
                 /\ LastUpdateStatus(events') = status
            ELSE Updates(events') = Updates(events)
         /\ \A i \in 1..(Len(Updates(events')) - 1) :
               Updates(events')[i].data.status # Updates(events')[i + 1].data.status
      ]_vars

C22_Witness ==
    /\ polls = 5
    /\ Len(Updates(events)) = 3
    /\ Updates(events)[1].data.status = "queued"
    /\ Updates(events)[2].data.status = "running"
    /\ Updates(events)[3].data.status = "completed"

\* C23: a poll that sees the job 'completed' or 'failed' emits, as the stream's
\* last event, a done event carrying that status and the result read by the
\* same poll, and ends the stream; no other poll emits a done event; a stream
\* emits at most one done event, and an ended stream emits nothing more.
C23_DoneOnceAndLast ==
    [][/\ polls' = polls + 1 =>
            IF visible /\ status \in {"completed", "failed"}
            THEN /\ events' # <<>>
                 /\ events'[Len(events')] =
                      [ev |-> "done", data |-> [status |-> status, result |-> result]]
                 /\ stream' = "ended"
            ELSE CountOf(events', "done") = CountOf(events, "done")
       /\ CountOf(events', "done") <= 1
       /\ stream = "ended" => events' = events /\ stream' = "ended"
      ]_vars

C23_Witness ==
    /\ stream = "ended"
    /\ polls = 3
    /\ Len(events) = 4
    /\ events[4] = DoneEvent("failed", result)
    /\ result.exists
    /\ events[3].ev = "update"

\* C24: a stream that has seen the job 'cancelled' has emitted a done event for
\* it and has ended.
C24_CancelledEndsStream ==
    last_status = "cancelled" =>
        /\ stream = "ended"
        /\ events[Len(events)].ev = "done"

\* C25: every stream ends; it never begins more than 120 polls; a stream of an
\* identified subscriber that ended without having seen 'completed' or 'failed'
\* (the job's row may never have been visible) ran all 120 polls and emitted
\* neither an error nor a done event.
C25_StreamEndsWithinPollLimit ==
    /\ [](polls <= 120)
    /\ []((/\ stream = "ended"
           /\ Truthy(tenant_id) /\ Truthy(user_id)
           /\ \A i \in 1..Len(events) :
                 events[i].ev = "update" => events[i].data.status \notin {"completed", "failed"})
          => (polls = 120 /\ CountOf(events, "error") = 0 /\ CountOf(events, "done") = 0))
    /\ <>(stream = "ended")

C25_Witness ==
    /\ stream = "ended"
    /\ polls = 120
    /\ last_status = "running"
    /\ Len(events) = 2

\* C26: when the subscriber's tenant id or user id is missing (None or empty),
\* the stream never polls the store, and it ends having emitted exactly one
\* event, an error event.
C26_MissingIdentityOnlyError ==
    (tenant_id \in {"<None>", ""} \/ user_id \in {"<None>", ""}) =>
        /\ polls = 0
        /\ stream \in {"start", "ended"}
        /\ stream = "start" => events = <<>>
        /\ stream = "ended" =>
              events = <<[ev |-> "error", data |-> [error |-> "unauthorized"]]>>

C26_Witness ==
    /\ tenant_id = "tenant-1"
    /\ user_id = ""
    /\ stream = "ended"
    /\ events = <<ErrorEvent>>
    /\ status = "completed"

----------------------------------------------------------------------------
\* Properties of submission and of the run's steps.

\* C27: the arguments each enqueue endpoint dispatches are accepted by the task
\* it names, so the call of the task is never rejected and the job's run
\* starts (a job whose task call is rejected stays 'queued': nothing else
\* writes its rows).
C27_DispatchedArgumentsAccepted ==
    pc # "rejected"

\* C28: a job that has left 'queued' never has that status again, and no run
\* of its task, first or repeated, writes 'queued'.
C28_NeverBackToQueued ==
    [][/\ status # "queued" => status' # "queued"
       /\ \A i \in 1..Len(writes') : writes'[i] # "queued"
      ]_vars

C28_Witness ==
    /\ delivery = 2
    /\ pc = "done"
    /\ Len(writes) = 6
    /\ status = "completed"
    /\ writes[3] = "failed"

\* C29: the progress passed with each status write is recorded with the job's
\* result: 10 once the run has marked the job running, 50 (30 for the bulk walk
\* and for TR-069) once it has written the pre-dispatch checkpoint, 100 when
\* the job is completed.
C29_ProgressRecordedWithStatus ==
    /\ pc \in {"started", "cancelling", "constructing", "constructed"} =>
          result.exists /\ result.progress = 10
    /\ pc \in {"dispatched", "calling", "closing", "closed"} =>
          /\ result.exists
          /\ result.progress =
               IF kind \in {"SNMP_BULKWALK", "TR069_GET", "TR069_SET"} THEN 30 ELSE 50
    /\ status = "completed" => result.exists /\ result.progress = 100

\* C30: a run invokes the client operation of its job's kind only when it has
\* not invoked one before and is handling no failure, and only after its first
\* write, which marks the job 'running'; a run that observed no cancellation
\* and built its client has invoked the operation when it ends; a run that
\* observed a cancellation has not.
C30_OperationInvokedOncePerRun ==
    [][/\ (pc # "calling" /\ pc' = "calling") =>
            /\ op = "none"
            /\ exc = NoExc
            /\ op' = ClientOp(kind)
            /\ writes # <<>> /\ writes[1] = "running"
       /\ NetworkCalls(log') > 0 => (writes' # <<>> /\ writes'[1] = "running")
       /\ (pc' = "done" /\ seen' # "cancelled" /\ exc'.msg # "construct") => op' = ClientOp(kind)
       /\ (pc' = "done" /\ seen' = "cancelled") => op' = "none"
      ]_vars

C30_Witness ==
    /\ kind = "WEBPA_SET"
    /\ pc = "done"
    /\ status = "failed"
    /\ op = "WebPAClient.set"
    /\ HttpCount(log) = 3
    /\ exc.cls = "timeout"

----------------------------------------------------------------------------
\* Properties of the SNMP client.

\* C31: bulk_walk returns at most max_rows rows, for every max_rows >= 0 and
\* every sequence of GETBULK responses, and asks for a further response only
\* while fewer than max_rows rows have been collected.
C31_BulkWalkAtMostMaxRows ==
    snmp_op = "bulk_walk" =>
        /\ snmp_pc = "returned" => Rows(results) <= max_rows
        /\ \A i \in 1..Len(results) : Rows(SubSeq(results, 1, i - 1)) < max_rows

\* Some fragment of the text is one of the given spellings.
Mentions(text, spellings) == \E i \in 1..Len(text) : text[i] \in spellings

----------------------------------------------------------------------------
\* Properties of the REST-backed client instances.

\* C33: whatever methods and close() calls are made on a REST-backed client
\* instance, at most one HTTP client object is live at a time and it is the one
\* the instance refers to; the first method that goes over HTTP constructs it,
\* later methods use the same object, a close() that returns leaves none
\* live, and close() on an instance without a client changes nothing.
C33_OneHttpClientPerInstance ==
    /\ Cardinality(open_clients) <= 1
    /\ open_clients \subseteq {self_client}
    /\ \A i \in 1..Len(calls) :
         LET c == calls[i]
             liveBefore == IF i = 1 THEN {} ELSE calls[i - 1].live
         IN  /\ c.name \in RestOps /\ UsesHttp(c.name, mode) /\ c.before = NoClient =>
                   /\ c.after # NoClient
                   /\ c.after \notin {calls[j].after : j \in 1..(i - 1)}
                   /\ c.live = {c.after}
             /\ c.name # "close" /\ c.before # NoClient =>
                   c.after = c.before /\ c.live \subseteq liveBefore
             /\ c.name = "close" => c.after = NoClient /\ c.live = {}
             /\ c.name = "close" /\ c.before = NoClient => c.live = liveBefore

\* A client is constructed by the first method, used again by the second,
\* closed, and closed once more.
C33_Witness ==
    /\ inst = "WebPAClient"
    /\ Len(calls) = 4
    /\ calls[1].name = "WebPAClient.get" /\ calls[1].after = 1
    /\ calls[2].name = "WebPAClient.set" /\ calls[2].after = 1
    /\ calls[3].name = "close" /\ calls[3].before = 1
    /\ calls[4].name = "close" /\ calls[4].before = NoClient
    /\ open_clients = {}
    /\ constructed = 1

----------------------------------------------------------------------------
\* Properties of the tenant context.

\* C34: every store access of an invocation is made under the tenant id and
\* the user id its job was dispatched with, also when invocations of one task
\* for jobs of different tenants overlap in one worker.
C34_WritesUnderOwnTenant ==
    \A i \in 1..Len(store_log) :
        \E n \in Invocations :
            /\ store_log[i].job_id = Kwargs(n).job_id
            /\ store_log[i].tenant_id = Kwargs(n)._tenant_id
            /\ store_log[i].user_id = Kwargs(n)._user_id

----------------------------------------------------------------------------
\* Properties of the enqueue endpoints.

\* C35: an enqueue endpoint called without a tenant id or without a user id
\* answers 401, inserts no job row and sends no task; a request it accepts
\* (202) has inserted exactly one row, with status 'queued', and sent exactly
\* one task, carrying that row's id and the caller's tenant and user ids; no
\* request inserts more than one row or sends more than one task.
C35_EnqueueRejectsOrCreatesOne ==
    LET t == request_state.tenant_id
        u == request_state.user_id
        missing == t \in {NoId, ""} \/ u \in {NoId, ""}
    IN  /\ missing => inserted = <<>> /\ broker = <<>> /\ http_response \in {0, 401}
        /\ missing /\ api_pc # "received" => http_response = 401
        /\ http_response = 401 => missing
        /\ Len(inserted) <= 1 /\ Len(broker) <= 1
        /\ http_response = 202 =>
              /\ Len(inserted) = 1
              /\ inserted[1].status = "queued"
              /\ inserted[1].tenant_id = t /\ inserted[1].requested_by = u
              /\ Len(broker) = 1
              /\ broker[1] = [task |-> TaskName(kind), job_id |-> inserted[1].id,
                              _tenant_id |-> t, _user_id |-> u]

\* A request that has a tenant id but an empty user id was answered.
C35_Witness ==
    /\ request_state = [tenant_id |-> "tenant-1", user_id |-> ""]
    /\ api_pc = "responded"
    /\ http_response = 401
    /\ inserted = <<>>
    /\ broker = <<>>

\* C36: the task of a job is sent only after the job's row has been committed
\* with status 'queued', so no run writes a status for a job that has no row;
\* when sending fails after the commit the row stays, in 'queued' unless a
\* cancellation was requested, and no run touches it.
C36_DispatchAfterCommit ==
    /\ broker # <<>> =>
          /\ inserted # <<>>
          /\ inserted[1].status = "queued"
          /\ status # NoJob
    /\ pc \notin {"unsent"} => broker # <<>>
    /\ writes # <<>> => inserted # <<>> /\ status # NoJob
    /\ api_pc = "dispatch failed" =>
          /\ Len(inserted) = 1
          /\ broker = <<>>
          /\ writes = <<>>
          /\ status = IF cancels = {} THEN "queued" ELSE "cancelled"

\* Sending failed after the row was committed.
C36_Witness ==
    /\ api_pc = "dispatch failed"
    /\ http_response = 500
    /\ Len(inserted) = 1
    /\ status = "queued"
    /\ broker = <<>>

----------------------------------------------------------------------------
\* Properties of the notifier and the job's status history.

RECURSIVE IsSubsequence(_, _)
\* a can be obtained from b by leaving elements out.
IsSubsequence(a, b) ==
    IF a = <<>> THEN TRUE
    ELSE IF b = <<>> THEN FALSE
    ELSE IF a[1] = b[1] THEN IsSubsequence(Tail(a), Tail(b))
    ELSE IsSubsequence(a, Tail(b))

\* The statuses of the update events, in order.
UpdateStatuses(evs) == [i \in 1..Len(Updates(evs)) |-> Updates(evs)[i].data.status]

\* C37: the statuses carried by the update events of a stream, in order, are
\* a subsequence of the statuses the job has had, in commit order: no status
\* the job did not have, none out of order; statuses that came and went
\* between two polls may be missing.
C37_UpdatesFollowHistory ==
    IsSubsequence(UpdateStatuses(events), history)

\* A stream that saw the job queued and then completed, and missed 'running'.
C37_Witness ==
    /\ UpdateStatuses(events) = <<"queued", "completed">>
    /\ history = <<"queued", "running", "running", "completed">>
    /\ stream = "ended"

\* C38: the poll that emits a done event emits, immediately before it, an
\* update event with the same status and result.
C38_DoneFollowsItsUpdate ==
    [][(events' # events /\ events'[Len(events')].ev = "done") =>
          /\ Len(events') = Len(events) + 2
          /\ polls' = polls + 1
          /\ events'[Len(events') - 1].ev = "update"
          /\ events'[Len(events') - 1].data = events'[Len(events')].data]_vars

\* The first poll of a stream found the job failed already.
C38_Witness ==
    /\ polls = 1
    /\ Len(events) = 2
    /\ events[1].ev = "update" /\ events[2].ev = "done"
    /\ events[1].data = events[2].data
    /\ events[2].data.status = "failed"

\* C39: every done event carries the job's result: the success payload when
\* it reports 'completed', the error payload when it reports 'failed'.
C39_DoneCarriesResult ==
    \A i \in 1..Len(events) :
        events[i].ev = "done" =>
            LET d == events[i].data
            IN  /\ d.status \in {"completed", "failed"}
                /\ d.result.exists
                /\ d.result.exists /\ d.status = "completed" =>
                      d.result.result = SuccessDetails(kind, clRet)
                /\ d.result.exists /\ d.status = "failed" =>
                      /\ d.result.result = ErrorDetails(kind, exc)
                      /\ d.result.result.error \in
                            {"timeout", "authentication", "snmp_error", "unexpected"}

\* A stream ended by a done event that reports the completed job.
C39_Witness ==
    /\ stream = "ended"
    /\ events # <<>>
    /\ events[Len(events)].ev = "done"
    /\ events[Len(events)].data.status = "completed"
    /\ events[Len(events)].data.result.exists
    /\ events[Len(events)].data.result.result.protocol = "snmp"
    /\ "cancelled" \in {history[j] : j \in 1..Len(history)}

====
